---- MODULE Spec2Model ----
(***************************************************************************)
(* Model of the Redux cart slice (store/cart-slice.ts) and of the store    *)
(* that owns it (store/store.ts).  The cart is an ordered list of line     *)
(* items; the two case reducers addToCart and removeFromCart are           *)
(* translated statement by statement.  JavaScript array indices are kept   *)
(* 0-based (findIndex returns -1 when nothing matches); element i of a JS  *)
(* array is element i + 1 of the TLA+ sequence.  Prices are carried in     *)
(* cents (9.99 is 999): the reducers only copy them.                       *)
(*                                                                         *)
(* The timers context (store/timers-context.tsx) is a useReducer state:    *)
(* the operations of the context value hand an action to dispatch, which   *)
(* puts it in the hook's update queue; the reducer runs over the queued    *)
(* actions, oldest first, when the provider renders next, and the context  *)
(* value consumers read is the one built by that render.                   *)
(***************************************************************************)
EXTENDS Integers, Sequences, FiniteSets, TLC

\* ------------------------------------------------------------------ bounds
\* number of dispatches explored from the initial store
MaxLog == 5
\* number of timers actions dispatched from the initial provider
MaxTLog == 5
\* dispatches to the store and to the provider when both are explored
MaxAppLog == 3
MaxAppTLog == 3
\* actions each concurrent caller dispatches
MaxPlan == 2
\* dispatches to the store when the CartItems component is explored
MaxReadLog == 3
\* calls of the goal handlers
MaxGoalOps == 4
\* posts in a response body
MaxPosts == 3
\* START/STOP operations and mounts when a Timer component is explored
MaxCompTLog == 3
MaxMounts == 2
\* cart dispatches, timers operations and held snapshots when the state
\* objects are explored
MaxHeapOps == 2
MaxHeapTOps == 1
MaxHeld == 2

\* ------------------------------------------------------------ input domains
Ids == {"a", "b", "c"}

\* payloads handed to addToCart: the declared shape {id, title, price} and
\* a whole CartItem (CartItems.handleAddToCart dispatches addToCart(item)),
\* which also carries a quantity
Payloads ==
  UNION { { [id |-> i, title |-> "Widget", price |-> 999],
            [id |-> i, title |-> "Gadget", price |-> 1250, quantity |-> 5] }
          : i \in Ids }

VARIABLES
  items,    \* store.getState().cart.items
  raised,   \* what the last dispatch raised: "none" or the error's name
  log,      \* the actions dispatched so far, oldest first
  snaps,    \* the snapshots of cart.items the store has held, oldest first
  timersState, \* the useReducer state of the provider's last render
  queue,    \* actions handed to the hook's dispatch and not reduced yet
  calls,    \* the context operations called so far, oldest first
  tlog,     \* the timers actions dispatched so far, oldest first
  tsnaps,   \* the states timersReducer was given and returned, oldest first
  plan,     \* the actions each concurrent caller is going to dispatch
  pcs,      \* how many actions of its plan each caller has dispatched
  shownTotal, \* totalPrice of the last render of CartItems
  readAt,   \* how many dispatches the store had seen at that render, or -1
  goals,    \* the goals state of the course-goals App
  glog,     \* the handler calls made on it, oldest first
  gsnaps,   \* the values goals has had, oldest first
  fpc,      \* where fetchPosts of the posts App is: "idle", "awaiting", "done"
  isFetching, \* the isFetching state of the posts App
  error,    \* its error state: Undefined or a message
  fetchedPosts, \* its fetchedPosts state
  response, \* how the request ended, "none" while it has not
  requests, \* how many requests the posts App has issued
  hook,     \* what the last call of useTimersContext did
  timer,    \* a Timer component: its state, ref and effect closure
  intervals, \* the browser's interval timers: the live ids and the next id
  heap,     \* the objects and arrays the two containers have allocated
  cartRef,  \* the object the store holds as state.cart
  timersRef, \* the object useReducer holds as timersState
  held      \* snapshots consumers hold: a reference and what it showed

cartVars  == <<items, raised, log, snaps>>
timerVars == <<timersState, queue, calls, tlog, tsnaps>>
concVars  == <<plan, pcs>>
readVars  == <<shownTotal, readAt>>
goalVars  == <<goals, glog, gsnaps>>
fetchVars == <<fpc, isFetching, error, fetchedPosts, response, requests>>
compVars  == <<timer, intervals>>
heapVars  == <<heap, cartRef, timersRef, held>>
uiVars    == <<goalVars, fetchVars, hook, compVars, heapVars>>
vars == <<items, raised, log, snaps, timersState, queue, calls, tlog, tsnaps,
          plan, pcs, shownTotal, readAt, goals, glog, gsnaps, fpc, isFetching,
          error, fetchedPosts, response, requests, hook, timer, intervals,
          heap, cartRef, timersRef, held>>

\* ------------------------------------------------------------- the reducers
initialState == [items |-> <<>>]

\* Array.prototype.findIndex on the item list: 0-based index of the first
\* item with that id, -1 when there is none
findIndex(its, id) ==
  IF \E i \in 1..Len(its) : its[i].id = id
  THEN (CHOOSE i \in 1..Len(its) :
          its[i].id = id /\ \A j \in 1..(i - 1) : its[j].id # id) - 1
  ELSE -1

\* variant: the keys the other way round, {quantity: 1, ...action.payload}
newItem_payloadWins(payload) ==
  [f \in (DOMAIN payload) \cup {"quantity"} |->
     IF f \in DOMAIN payload THEN payload[f] ELSE 1]

\* the object literal {...action.payload, quantity: 1}: the later key wins
newItem(payload) ==
  [f \in (DOMAIN payload) \cup {"quantity"} |->
     IF f = "quantity" THEN 1 ELSE payload[f]]

\* Array.prototype.splice(itemIndex, 1)
splice1(its, itemIndex) ==
  [i \in 1..(Len(its) - 1) |-> IF i <= itemIndex THEN its[i] ELSE its[i + 1]]

\* a case reducer either completes with a state or raises
Done(st)    == [state |-> st, raised |-> "none"]
Throws(st, e) == [state |-> st, raised |-> e]

\* variant: no lookup, every add pushes
addToCart_alwaysPush(state, action) ==
  Done([state EXCEPT !.items = Append(@, newItem(action.payload))])

\* variant: a found item is replaced by the payload's fields
addToCart_overwrite(state, action) ==
  LET itemIndex == findIndex(state.items, action.payload.id) IN
  IF itemIndex >= 0
  THEN Done([state EXCEPT !.items[itemIndex + 1] =
               [newItem(action.payload) EXCEPT !.quantity =
                  state.items[itemIndex + 1].quantity + 1]])
  ELSE Done([state EXCEPT !.items = Append(@, newItem(action.payload))])

\* variant: unshift instead of push
addToCart_unshift(state, action) ==
  LET itemIndex == findIndex(state.items, action.payload.id) IN
  IF itemIndex >= 0
  THEN Done([state EXCEPT !.items[itemIndex + 1].quantity = @ + 1])
  ELSE Done([state EXCEPT !.items = <<newItem(action.payload)>> \o @])

\* variant: the found test written itemIndex > 0
addToCart_indexPositive(state, action) ==
  LET itemIndex == findIndex(state.items, action.payload.id) IN
  IF itemIndex > 0
  THEN Done([state EXCEPT !.items[itemIndex + 1].quantity = @ + 1])
  ELSE Done([state EXCEPT !.items = Append(@, newItem(action.payload))])

addToCart(state, action) ==
  LET itemIndex == findIndex(state.items, action.payload.id) IN
  IF itemIndex >= 0
  THEN Done([state EXCEPT !.items[itemIndex + 1].quantity = @ + 1])
  ELSE Done([state EXCEPT !.items = Append(@, newItem(action.payload))])

\* variant: never splices, always decrements
removeFromCart_noSplice(state, action) ==
  LET itemIndex == findIndex(state.items, action.payload) IN
  IF itemIndex = -1
  THEN Throws(state, "TypeError")
  ELSE Done([state EXCEPT !.items[itemIndex + 1].quantity = @ - 1])

\* variant: splice(itemIndex) without a delete count drops the tail too
removeFromCart_spliceTail(state, action) ==
  LET itemIndex == findIndex(state.items, action.payload) IN
  IF itemIndex = -1
  THEN Throws(state, "TypeError")
  ELSE IF state.items[itemIndex + 1].quantity = 1
       THEN Done([state EXCEPT !.items = SubSeq(@, 1, itemIndex)])
       ELSE Done([state EXCEPT !.items[itemIndex + 1].quantity = @ - 1])

\* variant: a missing id is clamped to the first item instead of raising
removeFromCart_clampIndex(state, action) ==
  LET found == findIndex(state.items, action.payload)
      itemIndex == IF found = -1 THEN 0 ELSE found IN
  IF Len(state.items) = 0
  THEN Throws(state, "TypeError")
  ELSE IF state.items[itemIndex + 1].quantity = 1
       THEN Done([state EXCEPT !.items = splice1(@, itemIndex)])
       ELSE Done([state EXCEPT !.items[itemIndex + 1].quantity = @ - 1])

\* variant: the boundary test written quantity <= 2
removeFromCart_earlyDelete(state, action) ==
  LET itemIndex == findIndex(state.items, action.payload) IN
  IF itemIndex = -1
  THEN Throws(state, "TypeError")
  ELSE IF state.items[itemIndex + 1].quantity <= 2
       THEN Done([state EXCEPT !.items = splice1(@, itemIndex)])
       ELSE Done([state EXCEPT !.items[itemIndex + 1].quantity = @ - 1])

\* state.items[-1] is undefined, so reading its quantity raises a TypeError;
\* the draft is discarded and the store keeps the state it had
removeFromCart(state, action) ==
  LET itemIndex == findIndex(state.items, action.payload) IN
  IF itemIndex = -1
  THEN Throws(state, "TypeError")
  ELSE IF state.items[itemIndex + 1].quantity = 1
       THEN Done([state EXCEPT !.items = splice1(@, itemIndex)])
       ELSE Done([state EXCEPT !.items[itemIndex + 1].quantity = @ - 1])

\* ------------------------------------------------------- the timers context
\* timer data handed to addTimer: a Timer, and an object with one more key
TimerPayloads ==
  { [name |-> "t1", duration |-> 60],
    [name |-> "t2", duration |-> 90, elapsed |-> 0] }

\* action kinds that are not in the Action union
UnknownKinds == {"RESET_TIMERS"}

\* variant: the provider starts stopped
timersInitialState_stopped == [isRunning |-> FALSE, timers |-> <<>>]

timersInitialState == [isRunning |-> TRUE, timers |-> <<>>]

\* variant: STOP_TIMERS returns {isRunning: false} without ...state
timersReducer_stopNoSpread(state, action) ==
  IF action.type = "START_TIMERS"
  THEN [state EXCEPT !.isRunning = TRUE]
  ELSE IF action.type = "STOP_TIMERS"
  THEN [isRunning |-> FALSE, timers |-> <<>>]
  ELSE IF action.type = "ADD_TIMER"
  THEN [state EXCEPT !.timers =
          Append(@, [name |-> action.payload.name,
                     duration |-> action.payload.duration])]
  ELSE state

\* variant: ADD_TIMER appends action.payload itself
timersReducer_pushPayload(state, action) ==
  IF action.type = "START_TIMERS"
  THEN [state EXCEPT !.isRunning = TRUE]
  ELSE IF action.type = "STOP_TIMERS"
  THEN [state EXCEPT !.isRunning = FALSE]
  ELSE IF action.type = "ADD_TIMER"
  THEN [state EXCEPT !.timers = Append(@, action.payload)]
  ELSE state

\* variant: START_TIMERS toggles the flag
timersReducer_startToggles(state, action) ==
  IF action.type = "START_TIMERS"
  THEN [state EXCEPT !.isRunning = ~state.isRunning]
  ELSE IF action.type = "STOP_TIMERS"
  THEN [state EXCEPT !.isRunning = FALSE]
  ELSE IF action.type = "ADD_TIMER"
  THEN [state EXCEPT !.timers =
          Append(@, [name |-> action.payload.name,
                     duration |-> action.payload.duration])]
  ELSE state

\* variant: the fallback returns the initial state
timersReducer_unknownResets(state, action) ==
  IF action.type = "START_TIMERS"
  THEN [state EXCEPT !.isRunning = TRUE]
  ELSE IF action.type = "STOP_TIMERS"
  THEN [state EXCEPT !.isRunning = FALSE]
  ELSE IF action.type = "ADD_TIMER"
  THEN [state EXCEPT !.timers =
          Append(@, [name |-> action.payload.name,
                     duration |-> action.payload.duration])]
  ELSE [isRunning |-> TRUE, timers |-> <<>>]

timersReducer(state, action) ==
  IF action.type = "START_TIMERS"
  THEN [state EXCEPT !.isRunning = TRUE]
  ELSE IF action.type = "STOP_TIMERS"
  THEN [state EXCEPT !.isRunning = FALSE]
  ELSE IF action.type = "ADD_TIMER"
  THEN [state EXCEPT !.timers =
          Append(@, [name |-> action.payload.name,
                     duration |-> action.payload.duration])]
  ELSE state

\* variant: addTimer dispatches the action of startTimers
addTimer_wrongKind(timerData) == [type |-> "START_TIMERS"]

\* the actions the three operations of the context value construct
addTimer(timerData) == [type |-> "ADD_TIMER", payload |-> timerData]
startTimers == [type |-> "START_TIMERS"]
stopTimers  == [type |-> "STOP_TIMERS"]

\* the states the reducer returns for the queued actions, oldest first
RECURSIVE ReduceQueue(_, _)
ReduceQueue(state, q) ==
  IF q = <<>> THEN <<>>
  ELSE LET next == timersReducer(state, q[1]) IN
       <<next>> \o ReduceQueue(next, Tail(q))

\* ---------------------------------------------------------------- the store
CartInit ==
  /\ items = initialState.items
  /\ raised = "none"
  /\ log = <<>>
  /\ snaps = <<initialState.items>>

TimersInit ==
  /\ timersState = timersInitialState
  /\ queue = <<>>
  /\ calls = <<>>
  /\ tlog = <<>>
  /\ tsnaps = <<timersInitialState>>

\* no concurrent callers
NoPlan == plan = <<>> /\ pcs = <<>>

\* CartItems has not rendered
NoRead == shownTotal = 0 /\ readAt = -1

\* a state variable that holds undefined
Undefined == "<undefined>"

\* const [goals, setGoals] = useState<CourseGoal[]>([])
GoalsInit == goals = <<>> /\ glog = <<>> /\ gsnaps = << <<>> >>

\* the three useState of the posts App; fetchPosts has not been called
FetchInit ==
  /\ fpc = "idle"
  /\ isFetching = FALSE
  /\ error = Undefined
  /\ fetchedPosts = <<>>
  /\ response = "none"
  /\ requests = 0

\* useTimersContext has not been called
HookInit == hook = [outcome |-> "none"]

\* no Timer component is mounted, no interval was ever set
CompInit ==
  /\ timer = [mounted |-> FALSE, instance |-> 0, duration |-> 0,
              remainingTime |-> 0, isRunning |-> TRUE, intervalCurrent |-> 0,
              effectRan |-> FALSE, effectDep |-> TRUE, effectTimer |-> 0,
              strictDone |-> FALSE]
  /\ intervals = [live |-> {}, nextId |-> 1]

\* the initial state objects: object 1 is {items: 2}, object 2 the empty
\* items array, object 3 is {isRunning: true, timers: 4}, object 4 the empty
\* timers array
HeapInit ==
  /\ heap = << [kind |-> "cart", items |-> 2],
               [kind |-> "array", elems |-> <<>>],
               [kind |-> "timers", isRunning |-> TRUE, timers |-> 4],
               [kind |-> "array", elems |-> <<>>] >>
  /\ cartRef = 1
  /\ timersRef = 3
  /\ held = [cart |-> {}, timers |-> {}]

UiInit == GoalsInit /\ FetchInit /\ HookInit /\ CompInit /\ HeapInit

Init == CartInit /\ TimersInit /\ NoPlan /\ NoRead /\ UiInit

\* variant: the action is recorded and the reducer's result is not installed
Install_deferred(action, r) ==
  /\ log' = Append(log, action)
  /\ UNCHANGED <<items, raised, snaps>>

\* store.dispatch(action): run the slice reducer, install what it returns
Install(action, r) ==
  /\ items' = r.state.items
  /\ raised' = r.raised
  /\ log' = Append(log, action)
  /\ snaps' = Append(snaps, r.state.items)

\* variant: the reducer is given the snapshot of one dispatch earlier
CartAdd_stale(p) ==
  LET action == [type |-> "cart/addToCart", payload |-> p]
      stale == snaps[IF Len(snaps) > 1 THEN Len(snaps) - 1 ELSE 1] IN
  Install(action, addToCart([items |-> stale], action))

\* dispatch(addToCart(p)) and dispatch(removeFromCart(id)) on the store
CartAdd(p) ==
  LET action == [type |-> "cart/addToCart", payload |-> p] IN
  Install(action, addToCart([items |-> items], action))

CartRemove(id) ==
  LET action == [type |-> "cart/removeFromCart", payload |-> id] IN
  Install(action, removeFromCart([items |-> items], action))

DispatchAddToCart ==
  /\ Len(log) < MaxLog
  /\ \E p \in Payloads : CartAdd(p)
  /\ UNCHANGED <<timerVars, concVars, readVars, uiVars>>

DispatchRemoveFromCart ==
  /\ Len(log) < MaxLog
  /\ \E id \in Ids : CartRemove(id)
  /\ UNCHANGED <<timerVars, concVars, readVars, uiVars>>

Next == DispatchAddToCart \/ DispatchRemoveFromCart

Spec == Init /\ [][Next]_vars

\* ------------------------------------------------- the timers context provider
\* a context operation: record the call, hand its action to dispatch
Call(op, arg, action) ==
  /\ calls' = Append(calls, [op |-> op, arg |-> arg])
  /\ tlog' = Append(tlog, action)
  /\ queue' = Append(queue, action)
  /\ UNCHANGED <<timersState, tsnaps>>

\* the provider renders: useReducer runs timersReducer over the queue and
\* the context value is rebuilt from the state it ends in
RenderProvider ==
  /\ queue # <<>>
  /\ LET outs == ReduceQueue(timersState, queue) IN
     /\ timersState' = outs[Len(outs)]
     /\ tsnaps' = tsnaps \o outs
  /\ queue' = <<>>
  /\ UNCHANGED <<calls, tlog>>

CtxAddTimer(t) == Call("addTimer", t, addTimer(t))
CtxStartTimers == Call("startTimers", "none", startTimers)
CtxStopTimers  == Call("stopTimers", "none", stopTimers)
\* an action of no declared kind handed to the hook's dispatch
RawDispatch(k) == Call("dispatch", k, [type |-> k])

AddTimerOp ==
  /\ Len(tlog) < MaxTLog
  /\ \E t \in TimerPayloads : CtxAddTimer(t)
  /\ UNCHANGED <<cartVars, concVars, readVars, uiVars>>

StartTimersOp ==
  /\ Len(tlog) < MaxTLog
  /\ CtxStartTimers
  /\ UNCHANGED <<cartVars, concVars, readVars, uiVars>>

StopTimersOp ==
  /\ Len(tlog) < MaxTLog
  /\ CtxStopTimers
  /\ UNCHANGED <<cartVars, concVars, readVars, uiVars>>

UnknownActionOp ==
  /\ Len(tlog) < MaxTLog
  /\ \E k \in UnknownKinds : RawDispatch(k)
  /\ UNCHANGED <<cartVars, concVars, readVars, uiVars>>

Render ==
  /\ RenderProvider
  /\ UNCHANGED <<cartVars, concVars, readVars, uiVars>>

NextTimers ==
  AddTimerOp \/ StartTimersOp \/ StopTimersOp \/ UnknownActionOp \/ Render

SpecTimers == Init /\ [][NextTimers]_vars

\* ------------------------------------------- the store and the provider together
\* one payload per id, of either shape
AppPayloads ==
  { [id |-> "a", title |-> "Widget", price |-> 999],
    [id |-> "b", title |-> "Gadget", price |-> 1250, quantity |-> 5] }
AppIds == {"a", "b"}

AppAddToCart ==
  /\ Len(log) < MaxAppLog
  /\ \E p \in AppPayloads : CartAdd(p)
  /\ UNCHANGED <<timerVars, concVars, readVars, uiVars>>

AppRemoveFromCart ==
  /\ Len(log) < MaxAppLog
  /\ \E id \in AppIds : CartRemove(id)
  /\ UNCHANGED <<timerVars, concVars, readVars, uiVars>>

AppAddTimer ==
  /\ Len(tlog) < MaxAppTLog
  /\ \E t \in TimerPayloads : CtxAddTimer(t)
  /\ UNCHANGED <<cartVars, concVars, readVars, uiVars>>

AppStartTimers ==
  /\ Len(tlog) < MaxAppTLog
  /\ CtxStartTimers
  /\ UNCHANGED <<cartVars, concVars, readVars, uiVars>>

AppStopTimers ==
  /\ Len(tlog) < MaxAppTLog
  /\ CtxStopTimers
  /\ UNCHANGED <<cartVars, concVars, readVars, uiVars>>

NextApp ==
  \/ AppAddToCart \/ AppRemoveFromCart
  \/ AppAddTimer \/ AppStartTimers \/ AppStopTimers \/ Render

SpecApp == Init /\ [][NextApp]_vars

\* ------------------------------------------------------- concurrent callers
\* Two callers (event handlers, timeouts, resolved promises) each hold a
\* list of dispatches to make.  A JavaScript callback runs to completion, so
\* one dispatch call is one step; the callers' steps interleave freely.
Callers == {1, 2}

ConcActions ==
  { [target |-> "cart", payload |-> p] : p \in AppPayloads } \cup
  { [target |-> "timers", payload |-> t] : t \in TimerPayloads }

RECURSIVE SeqsUpTo(_, _)
SeqsUpTo(S, n) ==
  IF n = 0 THEN {<<>>}
  ELSE LET shorter == SeqsUpTo(S, n - 1) IN
       shorter \cup {Append(q, x) : q \in shorter, x \in S}

ConcInit ==
  /\ CartInit /\ TimersInit /\ NoRead /\ UiInit
  /\ plan \in [Callers -> SeqsUpTo(ConcActions, MaxPlan)]
  /\ pcs = [c \in Callers |-> 0]

\* the action caller c dispatches next
NextOf(c) == plan[c][pcs[c] + 1]

CallerAddToCart ==
  \E c \in Callers :
    /\ pcs[c] < Len(plan[c])
    /\ NextOf(c).target = "cart"
    /\ CartAdd(NextOf(c).payload)
    /\ pcs' = [pcs EXCEPT ![c] = @ + 1]
    /\ UNCHANGED <<plan, timerVars, readVars, uiVars>>

CallerAddTimer ==
  \E c \in Callers :
    /\ pcs[c] < Len(plan[c])
    /\ NextOf(c).target = "timers"
    /\ CtxAddTimer(NextOf(c).payload)
    /\ pcs' = [pcs EXCEPT ![c] = @ + 1]
    /\ UNCHANGED <<plan, cartVars, readVars, uiVars>>

NextConc == CallerAddToCart \/ CallerAddTimer \/ Render

SpecConc == ConcInit /\ [][NextConc]_vars

\* --------------------------------------------------- the CartItems component
\* variant: the reducer callback leaves out the quantity
RECURSIVE totalPrice_noQuantity(_)
totalPrice_noQuantity(cartItems) ==
  IF cartItems = <<>> THEN 0
  ELSE LET n == Len(cartItems) IN
       totalPrice_noQuantity(SubSeq(cartItems, 1, n - 1)) + cartItems[n].price

\* cartItems.reduce((val, item) => val + item.price * item.quantity, 0):
\* a left fold from 0
RECURSIVE totalPrice(_)
totalPrice(cartItems) ==
  IF cartItems = <<>> THEN 0
  ELSE LET n == Len(cartItems) IN
       totalPrice(SubSeq(cartItems, 1, n - 1))
         + cartItems[n].price * cartItems[n].quantity

\* CartItems renders (on mount, and again when the selected items changed):
\* useCartSelector returns the store's current items, totalPrice is
\* computed from them
RenderCartItems ==
  /\ readAt # Len(log)
  /\ shownTotal' = totalPrice(items)
  /\ readAt' = Len(log)
  /\ UNCHANGED <<cartVars, timerVars, concVars, uiVars>>

ReadAddToCart ==
  /\ Len(log) < MaxReadLog
  /\ \E p \in Payloads : CartAdd(p)
  /\ UNCHANGED <<timerVars, concVars, readVars, uiVars>>

ReadRemoveFromCart ==
  /\ Len(log) < MaxReadLog
  /\ \E id \in Ids : CartRemove(id)
  /\ UNCHANGED <<timerVars, concVars, readVars, uiVars>>

NextRead == ReadAddToCart \/ ReadRemoveFromCart \/ RenderCartItems

SpecRead == Init /\ [][NextRead]_vars

\* ------------------------------------------------------ the course-goals App
\* what the two inputs of NewGoal can hold
GoalTitles == {"Learn TS", "Learn React"}
GoalSummaries == {"basics"}
\* values Math.random() can return, in hundredths; nothing keeps two calls
\* from returning the same one
RandomValues == {25, 75}
\* ids handleDeleteGoal can be given
DeleteIds == RandomValues \cup {50}

\* variant: the filter keeps the goals of that id
handleDeleteGoal_keepsMatches(prevGoals, id) ==
  SelectSeq(prevGoals, LAMBDA goal : goal.id = id)

\* variant: the new goal is put first
handleAddGoal_prepends(prevGoals, goal, summary, random) ==
  << [id |-> random, title |-> goal, description |-> summary] >> \o prevGoals

\* the updater of handleAddGoal; random is what Math.random() returned
handleAddGoal(prevGoals, goal, summary, random) ==
  LET newGoal == [id |-> random, title |-> goal, description |-> summary] IN
  Append(prevGoals, newGoal)

\* the updater of handleDeleteGoal
handleDeleteGoal(prevGoals, id) ==
  SelectSeq(prevGoals, LAMBDA goal : goal.id # id)

SetGoals(call, new) ==
  /\ goals' = new
  /\ glog' = Append(glog, call)
  /\ gsnaps' = Append(gsnaps, new)

AddGoal ==
  /\ Len(glog) < MaxGoalOps
  /\ \E g \in GoalTitles, d \in GoalSummaries, r \in RandomValues :
       SetGoals([op |-> "add", title |-> g, description |-> d, id |-> r],
                handleAddGoal(goals, g, d, r))
  /\ UNCHANGED <<cartVars, timerVars, concVars, readVars, fetchVars, hook,
                 compVars, heapVars>>

DeleteGoal ==
  /\ Len(glog) < MaxGoalOps
  /\ \E id \in DeleteIds :
       SetGoals([op |-> "delete", id |-> id], handleDeleteGoal(goals, id))
  /\ UNCHANGED <<cartVars, timerVars, concVars, readVars, fetchVars, hook,
                 compVars, heapVars>>

NextGoals == AddGoal \/ DeleteGoal

SpecGoals == Init /\ [][NextGoals]_vars

\* ------------------------------------------------------------ the posts App
\* posts the server can send (RawDataBlogPost)
RawPosts ==
  { [id |-> 1, userId |-> 1, title |-> "first", body |-> "alpha"],
    [id |-> 2, userId |-> 1, title |-> "second", body |-> "beta"],
    [id |-> 3, userId |-> 2, title |-> "first", body |-> "gamma"],
    [id |-> 4, userId |-> 2, title |-> "fourth", body |-> ""] }

\* how fetch(url) can end: with a response (ok or not, its body a JSON list
\* of posts), or rejected because the request itself failed
FetchOutcomes ==
  { [kind |-> "response", ok |-> o, body |-> b] :
      o \in BOOLEAN, b \in SeqsUpTo(RawPosts, MaxPosts) }
  \cup { [kind |-> "rejected", message |-> "Failed to fetch"] }

Resolved(v) == [settled |-> "resolved", value |-> v]
Rejected(m) == [settled |-> "rejected", message |-> m]

\* variant: the response is parsed without looking at response.ok
get_noOkCheck(outcome) ==
  IF outcome.kind = "rejected" THEN Rejected(outcome.message)
  ELSE Resolved(outcome.body)

\* get(url), given how fetch(url) ended
get(outcome) ==
  IF outcome.kind = "rejected" THEN Rejected(outcome.message)
  ELSE IF ~outcome.ok THEN Rejected("Failed to fetch data.")
  ELSE Resolved(outcome.body)

\* data.map(rawPost => ({id, title, text: rawPost.body}))
blogsPosts(data) ==
  [i \in 1..Len(data) |->
     [id |-> data[i].id, title |-> data[i].title, text |-> data[i].body]]

\* a string in a condition: undefined and "" are falsy
Truthy(str) == str # Undefined /\ str # ""

\* what App renders from its three states: the three ifs in source order,
\* a later one overwriting content; an array is truthy also when empty
content ==
  LET c0 == [kind |-> "nothing"]
      c1 == IF Truthy(error) THEN [kind |-> "ErrorMessage", text |-> error]
            ELSE c0
      c2 == IF TRUE THEN [kind |-> "BlogPosts", posts |-> fetchedPosts]
            ELSE c1
      c3 == IF isFetching THEN [kind |-> "loading-fallback"] ELSE c2
  IN c3

\* the effect of the first render calls fetchPosts, which runs up to its
\* await
StartFetch ==
  /\ fpc = "idle"
  /\ isFetching' = TRUE
  /\ requests' = requests + 1
  /\ fpc' = "awaiting"
  /\ UNCHANGED <<error, fetchedPosts, response>>
  /\ UNCHANGED <<cartVars, timerVars, concVars, readVars, goalVars, hook,
                 compVars, heapVars>>

\* the request ends and fetchPosts runs from its await to its end
RequestSettles ==
  /\ fpc = "awaiting"
  /\ \E outcome \in FetchOutcomes :
       LET data == get(outcome) IN
       /\ response' = outcome
       /\ IF data.settled = "resolved"
          THEN fetchedPosts' = blogsPosts(data.value) /\ error' = error
          ELSE error' = data.message /\ fetchedPosts' = fetchedPosts
  /\ isFetching' = FALSE
  /\ fpc' = "done"
  /\ UNCHANGED requests
  /\ UNCHANGED <<cartVars, timerVars, concVars, readVars, goalVars, hook,
                 compVars, heapVars>>

NextFetch == StartFetch \/ RequestSettles

SpecFetch == Init /\ [][NextFetch]_vars

\* ---------------------------------------------------------- useTimersContext
\* createContext<TimersContextValue | null>(null): the default value
Null == [null |-> TRUE]

\* the context value the provider builds from its state at a render; the
\* three operations are named, not modelled as values
ctx(state) ==
  [timers |-> state.timers,
   isRunning |-> state.isRunning,
   addTimer |-> "addTimer",
   startTimers |-> "startTimers",
   stopTimers |-> "stopTimers"]

\* useContext(TimersContext): the value of the provider above the calling
\* component, the default when there is none
useContext(underProvider) == IF underProvider THEN ctx(timersState) ELSE Null

\* variant: the non-null assertion of the notes, useContext(TimersContext)!
useTimersContext_noGuard(timersCtx) ==
  [outcome |-> "return", value |-> timersCtx]

useTimersContext(timersCtx) ==
  IF timersCtx = Null
  THEN [outcome |-> "throw",
        message |-> "TimersContext is null - that should not be the case!"]
  ELSE [outcome |-> "return", value |-> timersCtx]

\* a component calls the hook while rendering; under and at record where
\* and after how many reduced actions
CallHook(underProvider) ==
  hook' = [under |-> underProvider, at |-> Len(tsnaps)]
            @@ useTimersContext(useContext(underProvider))

UseUnderProvider ==
  /\ CallHook(TRUE)
  /\ UNCHANGED <<cartVars, timerVars, concVars, readVars, goalVars, fetchVars,
                 compVars, heapVars>>

UseOutsideProvider ==
  /\ CallHook(FALSE)
  /\ UNCHANGED <<cartVars, timerVars, concVars, readVars, goalVars, fetchVars,
                 compVars, heapVars>>

NextHook ==
  \/ AppAddTimer \/ AppStartTimers \/ AppStopTimers \/ Render
  \/ UseUnderProvider \/ UseOutsideProvider

SpecHook == Init /\ [][NextHook]_vars

\* ------------------------------------------------------- the Timer component
\* The record timer holds one Timer component: whether it is mounted and
\* which mount it is, its duration prop, its remainingTime state, the
\* isRunning its last render read from the context, interval.current (0 for
\* null), and of the effect that ran last: whether one ran, the isRunning
\* it saw and its local timer (0 for undefined).  Interval ids are the
\* positive numbers setInterval hands out.
Durations == {0, 1}

\* variant: the updater without the prevTime <= 0 test
updater_noFloor(prevTime) == prevTime - 50

\* the function handed to setRemainingTime
updater(prevTime) == IF prevTime <= 0 THEN prevTime ELSE prevTime - 50

clearInterval(iv, id) == [iv EXCEPT !.live = @ \ {id}]
setInterval(iv) == [iv EXCEPT !.live = @ \cup {iv.nextId}, !.nextId = @ + 1]

\* the test in the component body, run at every render of the Timer
renderBody(c, iv) ==
  IF c.remainingTime <= 0 /\ c.intervalCurrent # 0
  THEN clearInterval(iv, c.intervalCurrent)
  ELSE iv

\* variant: the effect returns no cleanup function
cleanup_none(c, iv) == iv

\* the function the effect returned: clearInterval(timer); nothing to run
\* when no effect has run
cleanup(c, iv) == IF c.effectRan THEN clearInterval(iv, c.effectTimer) ELSE iv

\* variant: the effect sets the interval whatever isRunning is
effect_ignoresRunning(c, iv) ==
  [timer |-> [c EXCEPT !.effectTimer = iv.nextId,
                       !.intervalCurrent = iv.nextId,
                       !.effectRan = TRUE, !.effectDep = c.isRunning],
   intervals |-> setInterval(iv)]

\* the effect function, run with the isRunning of the last render
effect(c, iv) ==
  IF c.isRunning
  THEN [timer |-> [c EXCEPT !.effectTimer = iv.nextId,
                            !.intervalCurrent = iv.nextId,
                            !.effectRan = TRUE, !.effectDep = TRUE],
        intervals |-> setInterval(iv)]
  ELSE [timer |-> [c EXCEPT !.effectTimer = 0,
                            !.effectRan = TRUE, !.effectDep = FALSE],
        intervals |-> IF c.intervalCurrent # 0
                      THEN clearInterval(iv, c.intervalCurrent) ELSE iv]

\* an effect is waiting to run: the Timer rendered for the first time, or
\* with another isRunning than the effect that ran last
EffectPending ==
  timer.mounted /\ (~timer.effectRan \/ timer.effectDep # timer.isRunning)

otherThanComp ==
  <<cartVars, concVars, readVars, goalVars, fetchVars, hook, heapVars>>

\* a Timer is rendered for the first time
MountTimer ==
  /\ ~timer.mounted
  /\ timer.instance < MaxMounts
  /\ \E duration \in Durations :
       LET c == [mounted |-> TRUE, instance |-> timer.instance + 1,
                 duration |-> duration, remainingTime |-> duration * 1000,
                 isRunning |-> timersState.isRunning, intervalCurrent |-> 0,
                 effectRan |-> FALSE, effectDep |-> TRUE, effectTimer |-> 0,
                 strictDone |-> FALSE] IN
       /\ timer' = c
       /\ intervals' = renderBody(c, intervals)
  /\ UNCHANGED <<timerVars, otherThanComp>>

\* the pending effect runs: the cleanup of the effect before it, then the
\* effect function
RunEffect ==
  /\ EffectPending
  /\ LET r == effect(timer, cleanup(timer, intervals)) IN
     timer' = r.timer /\ intervals' = r.intervals
  /\ UNCHANGED <<timerVars, otherThanComp>>

\* strict mode runs the first effect of a mount a second time: its cleanup,
\* then the effect function again
StrictModeRerun ==
  /\ timer.mounted /\ timer.effectRan /\ ~timer.strictDone /\ ~EffectPending
  /\ LET r == effect(timer, cleanup(timer, intervals)) IN
     /\ timer' = [r.timer EXCEPT !.strictDone = TRUE]
     /\ intervals' = r.intervals
  /\ UNCHANGED <<timerVars, otherThanComp>>

\* a live interval fires: the updater runs on the state and, when the state
\* changed, the Timer renders again
Tick ==
  /\ \E id \in intervals.live :
       LET new == updater(timer.remainingTime)
           c == [timer EXCEPT !.remainingTime = new] IN
       IF timer.mounted /\ new # timer.remainingTime
       THEN timer' = c /\ intervals' = renderBody(c, intervals)
       ELSE UNCHANGED <<timer, intervals>>
  /\ UNCHANGED <<timerVars, otherThanComp>>

\* the Timer is removed: the cleanup of its last effect runs
UnmountTimer ==
  /\ timer.mounted
  /\ intervals' = cleanup(timer, intervals)
  /\ timer' = [timer EXCEPT !.mounted = FALSE]
  /\ UNCHANGED <<timerVars, otherThanComp>>

CompStartTimers ==
  /\ Len(tlog) < MaxCompTLog
  /\ CtxStartTimers
  /\ UNCHANGED <<compVars, otherThanComp>>

CompStopTimers ==
  /\ Len(tlog) < MaxCompTLog
  /\ CtxStopTimers
  /\ UNCHANGED <<compVars, otherThanComp>>

\* the provider renders and with it the Timer, which reads isRunning from
\* the new context value; effects of the render before have run by then
CompRender ==
  /\ ~EffectPending
  /\ RenderProvider
  /\ IF timer.mounted
     THEN LET c == [timer EXCEPT !.isRunning = timersState'.isRunning] IN
          timer' = c /\ intervals' = renderBody(c, intervals)
     ELSE UNCHANGED <<timer, intervals>>
  /\ UNCHANGED otherThanComp

NextComp ==
  \/ MountTimer \/ RunEffect \/ StrictModeRerun \/ Tick \/ UnmountTimer
  \/ CompStartTimers \/ CompStopTimers \/ CompRender

SpecComp == Init /\ [][NextComp]_vars

\* ---------------------------------------------------------- state objects
\* The state as objects: heap[a] is the object at address a.  A cart state
\* object holds the address of its items array, a timers state object its
\* run flag and the address of its timers array, an array the addresses of
\* its elements, an element its fields.  cartRef and timersRef are the
\* state objects the store and the provider hold now; held are the
\* snapshots consumers took, each the address read and the value it had.
HeapPayloads ==
  { [id |-> "a", title |-> "Widget", price |-> 999],
    [id |-> "b", title |-> "Gadget", price |-> 1250, quantity |-> 5] }
HeapIds == {"a", "b"}
HeapTimerPayloads == { [name |-> "t1", duration |-> 60] }

ElemsOf(h, arr) == [i \in 1..Len(h[arr].elems) |-> h[h[arr].elems[i]].val]
\* the value a reference to a state object gives when it is read
CartValue(h, ref)   == [items |-> ElemsOf(h, h[ref].items)]
TimersValue(h, ref) ==
  [isRunning |-> h[ref].isRunning, timers |-> ElemsOf(h, h[ref].timers)]

\* variant: the matching item is incremented in the object the state holds
addToCartOnHeap_inPlace(h, ref, action) ==
  LET elems == h[h[ref].items].elems
      itemIndex == findIndex(CartValue(h, ref).items, action.payload.id)
      n == Len(h) IN
  IF itemIndex >= 0
  THEN [heap |-> [h EXCEPT ![elems[itemIndex + 1]].val.quantity = @ + 1],
        ref |-> ref, raised |-> "none"]
  ELSE [heap |-> h \o << [kind |-> "item", val |-> newItem(action.payload)],
                         [kind |-> "array", elems |-> Append(elems, n + 1)],
                         [kind |-> "cart", items |-> n + 2] >>,
        ref |-> n + 3, raised |-> "none"]

\* addToCart on a draft: the objects the reducer writes to are copied, the
\* state returned is a new object, the ones it was given stay as they were
addToCartOnHeap(h, ref, action) ==
  LET elems == h[h[ref].items].elems
      itemIndex == findIndex(CartValue(h, ref).items, action.payload.id)
      n == Len(h) IN
  IF itemIndex >= 0
  THEN [heap |-> h \o
          << [h[elems[itemIndex + 1]] EXCEPT !.val.quantity = @ + 1],
             [kind |-> "array",
              elems |-> [elems EXCEPT ![itemIndex + 1] = n + 1]],
             [kind |-> "cart", items |-> n + 2] >>,
        ref |-> n + 3, raised |-> "none"]
  ELSE [heap |-> h \o << [kind |-> "item", val |-> newItem(action.payload)],
                         [kind |-> "array", elems |-> Append(elems, n + 1)],
                         [kind |-> "cart", items |-> n + 2] >>,
        ref |-> n + 3, raised |-> "none"]

\* removeFromCart on a draft; when it raises, no new state is produced
removeFromCartOnHeap(h, ref, action) ==
  LET elems == h[h[ref].items].elems
      itemIndex == findIndex(CartValue(h, ref).items, action.payload)
      n == Len(h) IN
  IF itemIndex = -1
  THEN [heap |-> h, ref |-> ref, raised |-> "TypeError"]
  ELSE IF h[elems[itemIndex + 1]].val.quantity = 1
       THEN [heap |-> h \o
               << [kind |-> "array", elems |-> splice1(elems, itemIndex)],
                  [kind |-> "cart", items |-> n + 1] >>,
             ref |-> n + 2, raised |-> "none"]
       ELSE [heap |-> h \o
               << [h[elems[itemIndex + 1]] EXCEPT !.val.quantity = @ - 1],
                  [kind |-> "array",
                   elems |-> [elems EXCEPT ![itemIndex + 1] = n + 1]],
                  [kind |-> "cart", items |-> n + 2] >>,
             ref |-> n + 3, raised |-> "none"]

\* variant: ADD_TIMER pushes onto the array the state holds
timersReducerOnHeap_push(h, ref, action) ==
  LET n == Len(h) IN
  IF action.type = "START_TIMERS"
  THEN [heap |-> Append(h, [h[ref] EXCEPT !.isRunning = TRUE]), ref |-> n + 1]
  ELSE IF action.type = "STOP_TIMERS"
  THEN [heap |-> Append(h, [h[ref] EXCEPT !.isRunning = FALSE]), ref |-> n + 1]
  ELSE IF action.type = "ADD_TIMER"
  THEN [heap |-> [Append(h, [kind |-> "timer",
                             val |-> [name |-> action.payload.name,
                                      duration |-> action.payload.duration]])
                    EXCEPT ![h[ref].timers].elems = Append(@, n + 1)],
        ref |-> ref]
  ELSE [heap |-> h, ref |-> ref]

\* timersReducer on objects: each object literal and array literal is a new
\* object, ...state copies the fields, the fallback returns state itself
timersReducerOnHeap(h, ref, action) ==
  LET n == Len(h) IN
  IF action.type = "START_TIMERS"
  THEN [heap |-> Append(h, [h[ref] EXCEPT !.isRunning = TRUE]), ref |-> n + 1]
  ELSE IF action.type = "STOP_TIMERS"
  THEN [heap |-> Append(h, [h[ref] EXCEPT !.isRunning = FALSE]), ref |-> n + 1]
  ELSE IF action.type = "ADD_TIMER"
  THEN [heap |-> h \o
          << [kind |-> "timer",
              val |-> [name |-> action.payload.name,
                       duration |-> action.payload.duration]],
             [kind |-> "array",
              elems |-> Append(h[h[ref].timers].elems, n + 1)],
             [h[ref] EXCEPT !.timers = n + 2] >>,
        ref |-> n + 3]
  ELSE [heap |-> h, ref |-> ref]

RECURSIVE ReduceQueueOnHeap(_, _, _)
ReduceQueueOnHeap(h, ref, q) ==
  IF q = <<>> THEN [heap |-> h, ref |-> ref]
  ELSE LET r == timersReducerOnHeap(h, ref, q[1]) IN
       ReduceQueueOnHeap(r.heap, r.ref, Tail(q))

otherThanHeap ==
  <<concVars, readVars, goalVars, fetchVars, hook, compVars>>

HeapAddToCart ==
  /\ Len(log) < MaxHeapOps
  /\ \E p \in HeapPayloads :
       LET r == addToCartOnHeap(heap, cartRef,
                                [type |-> "cart/addToCart", payload |-> p]) IN
       /\ CartAdd(p)
       /\ heap' = r.heap /\ cartRef' = r.ref
  /\ UNCHANGED <<timersRef, held, timerVars, otherThanHeap>>

HeapRemoveFromCart ==
  /\ Len(log) < MaxHeapOps
  /\ \E id \in HeapIds :
       LET r == removeFromCartOnHeap(heap, cartRef,
                  [type |-> "cart/removeFromCart", payload |-> id]) IN
       /\ CartRemove(id)
       /\ heap' = r.heap /\ cartRef' = r.ref
  /\ UNCHANGED <<timersRef, held, timerVars, otherThanHeap>>

\* a context operation or an undeclared action: queued, nothing reduced yet
HeapTimersOp ==
  /\ Len(tlog) < MaxHeapTOps
  /\ \/ \E t \in HeapTimerPayloads : CtxAddTimer(t)
     \/ CtxStartTimers
     \/ CtxStopTimers
     \/ \E k \in UnknownKinds : RawDispatch(k)
  /\ UNCHANGED <<heapVars, cartVars, otherThanHeap>>

HeapRender ==
  /\ RenderProvider
  /\ LET r == ReduceQueueOnHeap(heap, timersRef, queue) IN
     heap' = r.heap /\ timersRef' = r.ref
  /\ UNCHANGED <<cartRef, held, cartVars, otherThanHeap>>

\* a consumer keeps the state object it reads: useCartSelector's result,
\* the context value's fields
HoldCart ==
  /\ Cardinality(held.cart) + Cardinality(held.timers) < MaxHeld
  /\ held' = [held EXCEPT !.cart =
                @ \cup {[ref |-> cartRef, value |-> CartValue(heap, cartRef)]}]
  /\ UNCHANGED <<heap, cartRef, timersRef, cartVars, timerVars, otherThanHeap>>

HoldTimers ==
  /\ Cardinality(held.cart) + Cardinality(held.timers) < MaxHeld
  /\ held' = [held EXCEPT !.timers =
                @ \cup {[ref |-> timersRef,
                         value |-> TimersValue(heap, timersRef)]}]
  /\ UNCHANGED <<heap, cartRef, timersRef, cartVars, timerVars, otherThanHeap>>

NextHeap ==
  \/ HeapAddToCart \/ HeapRemoveFromCart \/ HeapTimersOp \/ HeapRender
  \/ HoldCart \/ HoldTimers

SpecHeap == Init /\ [][NextHeap]_vars

\* ------------------------------------------------------------------ helpers
TypeOK ==
  /\ raised \in {"none", "TypeError"}
  /\ Len(snaps) = Len(log) + 1
  /\ items = snaps[Len(snaps)]

IsAdd(a)    == a.type = "cart/addToCart"
IsRemove(a) == a.type = "cart/removeFromCart"
IdOf(a)     == IF IsAdd(a) THEN a.payload.id ELSE a.payload
IdsIn(its)  == {its[i].id : i \in 1..Len(its)}
Steps       == 1..Len(log)
\* the snapshot the m-th dispatch started from, and the one it left
Before(m)   == snaps[m]
After(m)    == snaps[m + 1]
\* the list without its k-th element
Without(its, k) ==
  [i \in 1..(Len(its) - 1) |-> IF i < k THEN its[i] ELSE its[i + 1]]
\* the list without the items of that id
WithoutId(its, id) == SelectSeq(its, LAMBDA it : it.id # id)
RECURSIVE SumQuantity(_)
SumQuantity(its) ==
  IF its = <<>> THEN 0 ELSE its[1].quantity + SumQuantity(Tail(its))
CountIn(S) == Cardinality(S)
Adds(id, n)    == CountIn({m \in 1..n : IsAdd(log[m]) /\ IdOf(log[m]) = id})
Removes(id, n) == CountIn({m \in 1..n : IsRemove(log[m]) /\ IdOf(log[m]) = id})
\* every removeFromCart dispatched so far named an id that was in the cart
EveryRemoveHits ==
  \A m \in Steps : IsRemove(log[m]) =>
     Adds(IdOf(log[m]), m - 1) - Removes(IdOf(log[m]), m - 1) > 0

\* ------------------------------------------------------------------ claims

\* C1: in every cart state reachable from the empty cart by addToCart and
\* removeFromCart dispatches, no two line items have the same id.
C1_UniqueIds ==
  \A i, j \in 1..Len(items) : i # j => items[i].id # items[j].id

\* three items in the cart, one of them added twice
C1_Witness ==
  /\ Len(items) = 3
  /\ \E i \in 1..3 : items[i].quantity = 2

\* C2: every line item of every reachable cart has an integer quantity
\* >= 1; no item is left in the cart with quantity 0 or less.
C2_QuantityAtLeastOne ==
  \A i \in 1..Len(items) : items[i].quantity \in Nat /\ items[i].quantity >= 1

\* the last dispatch removed an item that had quantity 1, others remain
C2_Witness ==
  /\ Len(log) >= 1
  /\ IsRemove(log[Len(log)])
  /\ \E k \in 1..Len(Before(Len(log))) :
       /\ Before(Len(log))[k].id = IdOf(log[Len(log)])
       /\ Before(Len(log))[k].quantity = 1
  /\ Len(items) >= 1

\* C3: addToCart with an id already in the cart increments that item's
\* quantity by exactly 1 and leaves its title and price (whatever the
\* payload carries), every other item, the number of items and their
\* order unchanged.
C3_AddExistingIncrements ==
  \A m \in Steps : IsAdd(log[m]) =>
    \A k \in 1..Len(Before(m)) : Before(m)[k].id = log[m].payload.id =>
      After(m) = [Before(m) EXCEPT ![k].quantity = @ + 1]

\* an item that is not first is added again with another title and price
C3_Witness ==
  \E m \in Steps : \E k \in 2..Len(Before(m)) :
    /\ IsAdd(log[m])
    /\ Before(m)[k].id = log[m].payload.id
    /\ Before(m)[k].title # log[m].payload.title
    /\ Before(m)[k].price # log[m].payload.price
    /\ After(m)[k].quantity = Before(m)[k].quantity + 1

\* C4: addToCart with an id not in the cart appends exactly one new item
\* at the end with the payload's id, title and price and quantity 1
\* (whatever quantity the payload carries); the items already present and
\* their order are unchanged.
C4_AddNewAppends ==
  \A m \in Steps :
    (IsAdd(log[m]) /\ log[m].payload.id \notin IdsIn(Before(m))) =>
      After(m) = Append(Before(m),
                        [id |-> log[m].payload.id,
                         title |-> log[m].payload.title,
                         price |-> log[m].payload.price,
                         quantity |-> 1])

\* a payload carrying quantity 5 is added to a cart that holds other items
C4_Witness ==
  \E m \in Steps :
    /\ IsAdd(log[m])
    /\ log[m].payload.id \notin IdsIn(Before(m))
    /\ "quantity" \in DOMAIN log[m].payload
    /\ log[m].payload.quantity = 5
    /\ Len(Before(m)) >= 2
    /\ Len(After(m)) = Len(Before(m)) + 1

\* C5: removeFromCart with the id of an item in the cart deletes that item
\* when its quantity is 1 and otherwise decrements its quantity by exactly
\* 1; every other item is unchanged.
C5_RemoveDeletesOrDecrements ==
  \A m \in Steps : IsRemove(log[m]) =>
    \A k \in 1..Len(Before(m)) : Before(m)[k].id = log[m].payload =>
      IF Before(m)[k].quantity = 1
      THEN After(m) = Without(Before(m), k)
      ELSE After(m) = [Before(m) EXCEPT ![k].quantity = @ - 1]

\* one dispatch decremented an item and a later one deleted an item that
\* was not the last of the list
C5_Witness ==
  /\ \E m \in Steps : \E k \in 1..Len(Before(m)) :
       /\ IsRemove(log[m])
       /\ Before(m)[k].id = log[m].payload
       /\ Before(m)[k].quantity = 2
       /\ After(m)[k].quantity = 1
  /\ \E m \in Steps : \E k \in 1..(Len(Before(m)) - 1) :
       /\ IsRemove(log[m])
       /\ Before(m)[k].id = log[m].payload
       /\ Before(m)[k].quantity = 1
       /\ Len(After(m)) = Len(Before(m)) - 1

\* C6: no reducer transition ever raises: whatever the state and the
\* action, removeFromCart of an id that is not in the cart included, the
\* reducer returns a state instead of throwing.
C6_NoDispatchRaises == raised = "none"

\* C7: removeFromCart applied N times to an item of quantity N removes it
\* from the list, the other items unchanged, and an (N+1)-th removeFromCart
\* of the same id leaves the cart snapshot exactly as it was.
C7_RemoveNTimes ==
  \A id \in Ids : \A k \in 0..Len(log) : \A N \in 1..(Len(log) - k) :
    ( /\ \E i \in 1..Len(snaps[k + 1]) :
           snaps[k + 1][i].id = id /\ snaps[k + 1][i].quantity = N
      /\ \A m \in (k + 1)..(k + N) : IsRemove(log[m]) /\ log[m].payload = id )
    =>
    /\ snaps[k + N + 1] = WithoutId(snaps[k + 1], id)
    /\ (k + N + 1 <= Len(log) /\ IsRemove(log[k + N + 1])
          /\ log[k + N + 1].payload = id)
         => snaps[k + N + 2] = snaps[k + N + 1]

\* an item of quantity 2 was removed twice and then a third time
C7_Witness ==
  \E id \in Ids : \E k \in 0..(Len(log) - 3) :
    /\ \E i \in 1..Len(snaps[k + 1]) :
         snaps[k + 1][i].id = id /\ snaps[k + 1][i].quantity = 2
    /\ \A m \in (k + 1)..(k + 3) : IsRemove(log[m]) /\ log[m].payload = id
    /\ id \notin IdsIn(items)
    /\ raised = "TypeError"

\* C8: from the empty cart, addToCart dispatches with pairwise distinct
\* ids leave as many items as there were dispatches, each with quantity 1,
\* in dispatch order.
C8_DistinctAdds ==
  ( /\ \A m \in Steps : IsAdd(log[m])
    /\ \A m, n \in Steps : m # n => log[m].payload.id # log[n].payload.id )
  =>
  /\ Len(items) = Len(log)
  /\ \A m \in Steps : items[m].id = log[m].payload.id /\ items[m].quantity = 1

\* three adds with three different ids
C8_Witness ==
  /\ Len(log) = 3
  /\ \A m \in Steps : IsAdd(log[m])
  /\ \A m, n \in Steps : m # n => log[m].payload.id # log[n].payload.id
  /\ Len(items) = 3

\* C9: from the empty cart, N >= 1 addToCart dispatches with the same id
\* leave exactly one item of that id, with quantity N.
C9_RepeatedAdds ==
  ( /\ Len(log) >= 1
    /\ \A m \in Steps : IsAdd(log[m]) /\ log[m].payload.id = log[1].payload.id )
  =>
  /\ Len(items) = 1
  /\ items[1].id = log[1].payload.id
  /\ items[1].quantity = Len(log)

\* the same id added four times
C9_Witness ==
  /\ Len(log) = 4
  /\ \A m \in Steps : IsAdd(log[m]) /\ log[m].payload.id = log[1].payload.id
  /\ Len(items) = 1
  /\ items[1].quantity = 4

\* C10: when every removeFromCart names an id currently in the cart, each
\* id's quantity is its adds minus its removes, the id is in the cart
\* exactly when that difference is positive, the sum of the quantities is
\* all adds minus all removes, and two adds of an id followed by one remove
\* leave one item of that id with quantity 1 and its original price.
C10_QuantityIsAddsMinusRemoves ==
  EveryRemoveHits =>
    /\ \A id \in Ids :
         LET d == Adds(id, Len(log)) - Removes(id, Len(log)) IN
         /\ (id \in IdsIn(items)) <=> (d > 0)
         /\ \A i \in 1..Len(items) : items[i].id = id => items[i].quantity = d
    /\ SumQuantity(items) =
         CountIn({m \in Steps : IsAdd(log[m])})
           - CountIn({m \in Steps : IsRemove(log[m])})
    /\ ( /\ Len(log) = 3
         /\ IsAdd(log[1]) /\ IsAdd(log[2]) /\ IsRemove(log[3])
         /\ log[2].payload.id = log[1].payload.id
         /\ log[3].payload = log[1].payload.id )
       => items = << [id |-> log[1].payload.id,
                      title |-> log[1].payload.title,
                      price |-> log[1].payload.price,
                      quantity |-> 1] >>

\* adds and removes of two ids interleaved, one id removed completely
C10_Witness ==
  /\ EveryRemoveHits
  /\ Len(log) = 5
  /\ \E id \in Ids : Adds(id, 5) = 2 /\ Removes(id, 5) = 1
  /\ \E id \in Ids : Adds(id, 5) = 1 /\ Removes(id, 5) = 1
  /\ SumQuantity(items) = 1


\* ------------------------------------------------------- timers claims
\* the timers actions the reducer has run on
TSteps      == 1..(Len(tsnaps) - 1)
TBefore(m)  == tsnaps[m]
TAfter(m)   == tsnaps[m + 1]
DeclaredKinds == {"START_TIMERS", "STOP_TIMERS", "ADD_TIMER"}
FlagSteps(n) == {m \in 1..n : tlog[m].type \in {"START_TIMERS", "STOP_TIMERS"}}
MaxOf(S)    == CHOOSE x \in S : \A y \in S : y <= x

TimersTypeOK ==
  /\ Len(tlog) = Len(calls)
  /\ Len(tsnaps) - 1 + Len(queue) = Len(tlog)
  /\ timersState = tsnaps[Len(tsnaps)]
  /\ queue = SubSeq(tlog, Len(tsnaps), Len(tlog))

\* C12: START_TIMERS sets isRunning to true and STOP_TIMERS sets it to
\* false, whatever the flag was, and both leave the timers list (elements
\* and order) unchanged.
C12_StartStopSetFlag ==
  \A m \in TSteps :
    /\ tlog[m].type = "START_TIMERS" =>
         TAfter(m) = [isRunning |-> TRUE, timers |-> TBefore(m).timers]
    /\ tlog[m].type = "STOP_TIMERS" =>
         TAfter(m) = [isRunning |-> FALSE, timers |-> TBefore(m).timers]

\* START and STOP were each reduced from a running and from a stopped
\* state, the list holding a timer
C12_Witness ==
  \A k \in {"START_TIMERS", "STOP_TIMERS"} : \A b \in BOOLEAN :
    \E m \in TSteps :
      /\ tlog[m].type = k
      /\ TBefore(m).isRunning = b
      /\ Len(TBefore(m).timers) = 1

\* C13: ADD_TIMER(name, duration) makes the timers list the previous list
\* followed by one new record {name, duration}, also when a timer of that
\* name exists already, and leaves isRunning unchanged.
C13_AddTimerAppends ==
  \A m \in TSteps : tlog[m].type = "ADD_TIMER" =>
    TAfter(m) =
      [isRunning |-> TBefore(m).isRunning,
       timers |-> Append(TBefore(m).timers,
                         [name |-> tlog[m].payload.name,
                          duration |-> tlog[m].payload.duration])]

\* while stopped, a timer whose name is in the list already is added, and
\* timer data with an extra key has been added too
C13_Witness ==
  /\ \E m \in TSteps :
       /\ tlog[m].type = "ADD_TIMER"
       /\ ~TBefore(m).isRunning
       /\ \E i \in 1..Len(TBefore(m).timers) :
            TBefore(m).timers[i].name = tlog[m].payload.name
       /\ Len(TAfter(m).timers) = Len(TBefore(m).timers) + 1
  /\ \E m \in TSteps :
       /\ tlog[m].type = "ADD_TIMER"
       /\ "elapsed" \in DOMAIN tlog[m].payload

\* C14: after any sequence of timers actions isRunning is true when the
\* most recent START_TIMERS/STOP_TIMERS action was a START or there was
\* none, and false when it was a STOP; START followed by STOP leaves the
\* timers list unchanged and isRunning false.
C14_FlagFollowsLastStartStop ==
  /\ \A n \in 0..(Len(tsnaps) - 1) :
       tsnaps[n + 1].isRunning =
         IF FlagSteps(n) = {} THEN TRUE
         ELSE tlog[MaxOf(FlagSteps(n))].type = "START_TIMERS"
  /\ \A m \in TSteps :
       (m + 1 \in TSteps /\ tlog[m].type = "START_TIMERS"
          /\ tlog[m + 1].type = "STOP_TIMERS")
       => TAfter(m + 1) = [isRunning |-> FALSE, timers |-> TBefore(m).timers]

\* START then STOP were reduced from a state with a timer, with other
\* actions reduced after them, and a START was reduced while running
C14_Witness ==
  /\ \E m \in TSteps :
       /\ m + 2 \in TSteps
       /\ tlog[m].type = "START_TIMERS" /\ tlog[m + 1].type = "STOP_TIMERS"
       /\ TBefore(m).timers # <<>>
       /\ tlog[m + 2].type = "ADD_TIMER"
  /\ \E m \in TSteps : tlog[m].type = "START_TIMERS" /\ TBefore(m).isRunning
  /\ ~timersState.isRunning

\* C15: each container is created with a fixed initial snapshot (timers:
\* isRunning true and no timers; cart: no items), and from the initial
\* timers snapshot STOP followed by ADD_TIMER("t1", 60) gives isRunning
\* false and timers = [{name: "t1", duration: 60}].
C15_InitialSnapshots ==
  /\ tsnaps[1] = [isRunning |-> TRUE, timers |-> <<>>]
  /\ snaps[1] = <<>>
  /\ ( /\ Len(tsnaps) = 3
       /\ tlog[1] = [type |-> "STOP_TIMERS"]
       /\ tlog[2].type = "ADD_TIMER"
       /\ tlog[2].payload = [name |-> "t1", duration |-> 60] )
     => /\ timersState = [isRunning |-> FALSE,
                          timers |-> <<[name |-> "t1", duration |-> 60]>>]
        /\ tsnaps[3] = timersState

\* STOP and ADD_TIMER("t1", 60) were dispatched and reduced, nothing else
C15_Witness ==
  /\ Len(tlog) = 2 /\ Len(tsnaps) = 3 /\ queue = <<>>
  /\ tlog[1].type = "STOP_TIMERS"
  /\ tlog[2].type = "ADD_TIMER"
  /\ tlog[2].payload.name = "t1" /\ tlog[2].payload.duration = 60
  /\ Len(timersState.timers) = 1

\* C16: for every state and every action whose kind is not a declared one
\* the reducer returns the state unchanged (same run flag, same list).
C16_UnknownKindIgnored ==
  \A m \in TSteps : tlog[m].type \notin DeclaredKinds =>
    TAfter(m) = TBefore(m)

\* an undeclared action was reduced in a stopped state that holds timers
C16_Witness ==
  \E m \in TSteps :
    /\ tlog[m].type \notin DeclaredKinds
    /\ ~TBefore(m).isRunning
    /\ Len(TBefore(m).timers) >= 2
    /\ TAfter(m) = TBefore(m)


\* ------------------------------------------- claims on both containers
\* the ids of a list in list order
IdSeq(its) == [i \in 1..Len(its) |-> its[i].id]
\* a sequence restricted to the members of S, order kept
Restrict(seq, S) == SelectSeq(seq, LAMBDA x : x \in S)
IsPrefix(a, b) == Len(a) <= Len(b) /\ a = SubSeq(b, 1, Len(a))
\* the records ADD_TIMER appends for the first n dispatched actions
RECURSIVE TimersAdded(_)
TimersAdded(n) ==
  IF n = 0 THEN <<>>
  ELSE IF tlog[n].type = "ADD_TIMER"
       THEN Append(TimersAdded(n - 1),
                   [name |-> tlog[n].payload.name,
                    duration |-> tlog[n].payload.duration])
       ELSE TimersAdded(n - 1)

C17_ChangesOnlyAtCalls ==
  [][ /\ timersState' # timersState => Len(calls') = Len(calls) + 1
      /\ items' # items => Len(log') = Len(log) + 1 ]_vars

\* C17 amended: addTimer, startTimers and stopTimers each dispatch exactly
\* one action of their own kind (ADD_TIMER with the given timer,
\* START_TIMERS, STOP_TIMERS); the timers snapshot changes only when the
\* provider reduces actions so dispatched, the cart only in the dispatch of
\* one addToCart or removeFromCart action, and without a dispatched action
\* neither snapshot changes.
C17_ChangeOnlyThroughOperations ==
  /\ [](/\ Len(tlog) = Len(calls)
        /\ \A m \in 1..Len(calls) :
             /\ calls[m].op \in {"addTimer", "startTimers", "stopTimers"}
             /\ calls[m].op = "addTimer" =>
                  tlog[m] = [type |-> "ADD_TIMER", payload |-> calls[m].arg]
             /\ calls[m].op = "startTimers" => tlog[m] = [type |-> "START_TIMERS"]
             /\ calls[m].op = "stopTimers" => tlog[m] = [type |-> "STOP_TIMERS"]
        /\ \A m \in Steps : log[m].type \in {"cart/addToCart", "cart/removeFromCart"})
  /\ [][ /\ timersState' # timersState =>
              /\ Len(tsnaps') > Len(tsnaps)
              /\ Len(tsnaps') - 1 <= Len(calls)
         /\ items' # items => Len(log') = Len(log) + 1
         /\ Len(log') = Len(log) => snaps' = snaps
         /\ Len(calls') = Len(calls) + 1 =>
              /\ Len(tlog') = Len(tlog) + 1
              /\ SubSeq(tlog', 1, Len(tlog)) = tlog ]_vars

\* each of the three operations was called, all were reduced, and the cart
\* was changed by an add and by a remove
C17_Witness ==
  /\ {calls[m].op : m \in 1..Len(calls)} = {"addTimer", "startTimers", "stopTimers"}
  /\ queue = <<>>
  /\ Len(timersState.timers) = 1
  /\ \E m \in Steps : IsAdd(log[m]) /\ After(m) # Before(m)
  /\ \E m \in Steps : IsRemove(log[m]) /\ After(m) # Before(m)

\* C18 as stated: when an operation returns the reducer has run and the
\* new snapshot is the one consumers read; no action is held in a queue.
C18_NothingQueued ==
  /\ queue = <<>>
  /\ Len(tsnaps) = Len(tlog) + 1
  /\ Len(snaps) = Len(log) + 1

\* C18 amended: a cart dispatch is processed before it returns (the store
\* holds the reducer's result for every action dispatched); a timers
\* operation queues its action, the queue holds exactly the dispatched
\* actions not reduced yet in dispatch order, and a render reduces all of
\* them, so that the snapshot read after it reflects every action
\* dispatched before it.
C18_CartSyncTimersAtRender ==
  /\ [](/\ Len(snaps) = Len(log) + 1
        /\ items = snaps[Len(snaps)]
        /\ queue = SubSeq(tlog, Len(tsnaps), Len(tlog))
        /\ timersState = tsnaps[Len(tsnaps)]
        /\ timersState.timers = TimersAdded(Len(tsnaps) - 1))
  /\ [][ Len(tsnaps') # Len(tsnaps) =>
           /\ queue' = <<>>
           /\ Len(tsnaps') = Len(tlog) + 1
           /\ tlog' = tlog ]_vars

\* after a first render two more actions are queued, one an ADD_TIMER, and
\* the cart has been changed meanwhile
C18_Witness ==
  /\ Len(tsnaps) = 2
  /\ Len(queue) = 2
  /\ \E i \in 1..2 : queue[i].type = "ADD_TIMER"
  /\ Len(log) >= 1 /\ items # <<>>


\* --------------------------------------------------- concurrency claims
\* what caller c has dispatched so far to one container, oldest first
Dispatched(c, target) ==
  LET done == SubSeq(plan[c], 1, pcs[c])
      part == SelectSeq(done, LAMBDA a : a.target = target) IN
  [i \in 1..Len(part) |-> part[i].payload]
\* s is an interleaving of a and b that keeps the order of each
RECURSIVE IsMerge(_, _, _)
IsMerge(s, a, b) ==
  IF s = <<>> THEN a = <<>> /\ b = <<>>
  ELSE \/ a # <<>> /\ a[1] = s[1] /\ IsMerge(Tail(s), Tail(a), b)
       \/ b # <<>> /\ b[1] = s[1] /\ IsMerge(Tail(s), a, Tail(b))
AddsOfId(c, id) ==
  Cardinality({i \in 1..Len(Dispatched(c, "cart")) :
                 Dispatched(c, "cart")[i].id = id})
AllDone == \A c \in Callers : pcs[c] = Len(plan[c])

\* C19: dispatches issued by several callers are applied one at a time in
\* an order that keeps each caller's own order, and no update is lost: the
\* dispatched actions are an interleaving of the callers' sequences, each
\* id's quantity is the number of addToCart the callers dispatched for it,
\* and once rendered the timers list holds one entry per ADD_TIMER in
\* dispatch order.
C19_SerializedNoLostUpdate ==
  /\ IsMerge([i \in 1..Len(log) |-> log[i].payload],
             Dispatched(1, "cart"), Dispatched(2, "cart"))
  /\ IsMerge([i \in 1..Len(tlog) |-> tlog[i].payload],
             Dispatched(1, "timers"), Dispatched(2, "timers"))
  /\ \A id \in AppIds :
       LET n == AddsOfId(1, id) + AddsOfId(2, id) IN
       /\ (id \in IdsIn(items)) <=> (n > 0)
       /\ \A i \in 1..Len(items) : items[i].id = id => items[i].quantity = n
  /\ \A i, j \in 1..Len(items) : i # j => items[i].id # items[j].id
  /\ Len(timersState.timers) + Len(queue) =
       Len(Dispatched(1, "timers")) + Len(Dispatched(2, "timers"))
  /\ \A i \in 1..Len(timersState.timers) :
       /\ timersState.timers[i].name = tlog[i].payload.name
       /\ timersState.timers[i].duration = tlog[i].payload.duration

\* both callers added the same id to the cart and a timer each; all of it
\* has been applied
C19_Witness ==
  /\ AllDone /\ queue = <<>>
  /\ \A c \in Callers : Len(plan[c]) = 2
  /\ \E id \in AppIds : AddsOfId(1, id) = 1 /\ AddsOfId(2, id) = 1
  /\ Len(items) = 1 /\ items[1].quantity = 2
  /\ Len(timersState.timers) = 2


\* ------------------------------------------------------ projection claims
\* the sum over the items of price times quantity, item by item from the
\* front
RECURSIVE SumPriceTimesQuantity(_)
SumPriceTimesQuantity(its) ==
  IF its = <<>> THEN 0
  ELSE its[1].price * its[1].quantity + SumPriceTimesQuantity(Tail(its))

\* C20: the total price read after any sequence of cart dispatches is the
\* sum over the items of the current snapshot of price times quantity (0
\* for the empty cart); every read computes it from the snapshot the store
\* holds at that read, never from an earlier one.
C20_TotalPriceOfCurrentSnapshot ==
  /\ [](readAt >= 0 =>
          /\ shownTotal = SumPriceTimesQuantity(snaps[readAt + 1])
          /\ snaps[readAt + 1] = <<>> => shownTotal = 0)
  /\ [][ readAt' # readAt =>
           /\ readAt' = Len(log)
           /\ shownTotal' = SumPriceTimesQuantity(items) ]_vars

\* a second read, made of a cart holding two units of one item and one of
\* an item of another price
C20_Witness ==
  /\ readAt = 3
  /\ Len(items) = 2
  /\ items[1].quantity = 2 /\ items[2].quantity = 1
  /\ items[1].price # items[2].price
  /\ shownTotal = 2 * items[1].price + items[2].price


\* ------------------------------------------------------ round-trip claims
\* C29: for every reachable cart and every payload, addToCart followed
\* immediately by removeFromCart of the same id restores exactly the prior
\* cart: same items, order, quantities, titles and prices.
C29_AddThenRemoveRestores ==
  \A m \in Steps :
    (m + 1 \in Steps /\ IsAdd(log[m]) /\ IsRemove(log[m + 1])
       /\ log[m + 1].payload = log[m].payload.id)
    => snaps[m + 2] = snaps[m]

\* an id was added to a cart that held it, another time to a cart of other
\* items only, and each add was undone by the next dispatch
C29_Witness ==
  /\ \E m \in Steps :
       /\ m + 1 \in Steps /\ IsAdd(log[m]) /\ IsRemove(log[m + 1])
       /\ log[m + 1].payload = log[m].payload.id
       /\ log[m].payload.id \in IdsIn(Before(m))
  /\ \E m \in Steps :
       /\ m + 1 \in Steps /\ IsAdd(log[m]) /\ IsRemove(log[m + 1])
       /\ log[m + 1].payload = log[m].payload.id
       /\ log[m].payload.id \notin IdsIn(Before(m))
       /\ Before(m) # <<>>

\* ------------------------------------------------------------ goals claims
GSteps == 1..Len(glog)
\* the places of the added goals that a later delete has not named
KeptAdds ==
  {m \in GSteps : /\ glog[m].op = "add"
                  /\ \A k \in (m + 1)..Len(glog) :
                       ~(glog[k].op = "delete" /\ glog[k].id = glog[m].id)}

\* C30: after any sequence of handleAddGoal and handleDeleteGoal the goals
\* list holds, in order of addition, exactly the added goals whose id was
\* not passed to handleDeleteGoal since: an add appends one goal at the
\* end, a delete removes every goal of that id and keeps the others in
\* order, a delete of an id not in the list changes nothing.
C30_GoalsAreKeptAdds ==
  /\ Len(goals) = Cardinality(KeptAdds)
  /\ \A i \in 1..Len(goals) :
       \E m \in KeptAdds :
         /\ Cardinality({k \in KeptAdds : k <= m}) = i
         /\ goals[i].id = glog[m].id
         /\ goals[i].title = glog[m].title
         /\ goals[i].description = glog[m].description
  /\ \A m \in GSteps :
       /\ glog[m].op = "add" =>
            /\ Len(gsnaps[m + 1]) = Len(gsnaps[m]) + 1
            /\ SubSeq(gsnaps[m + 1], 1, Len(gsnaps[m])) = gsnaps[m]
       /\ glog[m].op = "delete" =>
            /\ \A i \in 1..Len(gsnaps[m + 1]) : gsnaps[m + 1][i].id # glog[m].id
            /\ (\A i \in 1..Len(gsnaps[m]) : gsnaps[m][i].id # glog[m].id)
                 => gsnaps[m + 1] = gsnaps[m]

\* two goals got the same id and one delete removed both, leaving the goal
\* between them; a delete of an absent id has been made too
C30_Witness ==
  /\ \E m \in GSteps :
       /\ glog[m].op = "delete"
       /\ Len(gsnaps[m]) = 3 /\ Len(gsnaps[m + 1]) = 1
       /\ gsnaps[m][1].id = glog[m].id /\ gsnaps[m][3].id = glog[m].id
       /\ gsnaps[m + 1][1] = gsnaps[m][2]
  /\ goals # <<>>


\* ------------------------------------------------------------ fetch claims
Succeeded == fpc = "done" /\ response.kind = "response" /\ response.ok
Failed    == fpc = "done" /\ ~(response.kind = "response" /\ response.ok)

\* C21: the component issues one request and never retries; isFetching is
\* true while the request is pending and false once it has completed or
\* failed, and the display is then in exactly one terminal state: success
\* when the request succeeded, error when it failed.
C21_OneRequestOneTerminalDisplay ==
  /\ requests <= 1
  /\ fpc = "awaiting" => isFetching /\ content.kind = "loading-fallback"
  /\ fpc = "done" => ~isFetching /\ requests = 1
  /\ Succeeded => content.kind = "BlogPosts"
  /\ Failed => content.kind = "ErrorMessage"

\* C22: when the fetch helper raises, the failure is surfaced as one
\* textual error message that the display shows: after a failed fetch the
\* rendered content is the error message, not the posts list and not the
\* loading fallback.
C22_FailureShowsErrorMessage ==
  Failed =>
    /\ Truthy(error)
    /\ content = [kind |-> "ErrorMessage", text |-> error]

C24_HookNeverReturnsNull ==
  hook.outcome # "none" =>
    /\ hook.outcome = "return" => hook.value # Null
    /\ hook.under =>
         /\ hook.outcome = "return"
         /\ hook.value = [timers |-> tsnaps[hook.at].timers,
                          isRunning |-> tsnaps[hook.at].isRunning,
                          addTimer |-> "addTimer",
                          startTimers |-> "startTimers",
                          stopTimers |-> "stopTimers"]
    /\ ~hook.under =>
         /\ hook.outcome = "throw"
         /\ hook.message = "TimersContext is null - that should not be the case!"

\* the hook returned the value of a stopped provider holding a timer
C24_Witness ==
  /\ hook.outcome = "return"
  /\ hook.under
  /\ ~hook.value.isRunning
  /\ Len(hook.value.timers) = 1

\* the hook raised outside a provider
C24_WitnessThrow ==
  /\ hook.outcome = "throw"
  /\ ~hook.under
  /\ Len(tlog) > 0


\* -------------------------------------------------- Timer component claims
SameInstance == timer'.instance = timer.instance
Decremented  == SameInstance /\ timer'.remainingTime < timer.remainingTime

\* C25: with the effect cleanup in place, after any sequence of mounts,
\* strict-mode double runs, effect re-runs on isRunning changes and
\* unmounts of a Timer, at most one of its countdown intervals is live at
\* any time and none is live after it unmounts.
C25_AtMostOneInterval ==
  /\ Cardinality(intervals.live) <= 1
  /\ ~timer.mounted => intervals.live = {}

\* the second mount of the Timer has its third interval live, the ones
\* before having been cleared
C25_Witness ==
  /\ timer.mounted /\ timer.instance = 2 /\ timer.strictDone
  /\ intervals.live = {timer.effectTimer}
  /\ timer.effectTimer >= 3

\* C26 as stated: the remaining time decreases only while the context's
\* isRunning is true.
C26_DecrementOnlyWhileRunning ==
  [][Decremented => timersState.isRunning]_vars

\* C26 amended: the remaining time decreases only while the effect the
\* Timer ran last saw isRunning true; once the effect has run for
\* isRunning false no tick decrements it until the effect has run for
\* isRunning true again.
C26_DecrementOnlyAfterRunningEffect ==
  [][Decremented => (timer.effectRan /\ timer.effectDep)]_vars

\* the timers were stopped and started again, the effect ran each time,
\* and the remaining time has gone down since the mount
C26_Witness ==
  /\ timer.mounted /\ timer.effectRan /\ timer.effectDep
  /\ Len(tsnaps) = 3
  /\ ~tsnaps[2].isRunning /\ tsnaps[3].isRunning
  /\ timer.intervalCurrent >= 2
  /\ timer.remainingTime < timer.duration * 1000

\* C27: the remaining time starts at duration * 1000, never increases,
\* changes only in steps of 50, and once it is <= 0 no tick changes it.
C27_RemainingTimeSteps ==
  [][ /\ (timer'.mounted /\ ~SameInstance) =>
           timer'.remainingTime = timer'.duration * 1000
      /\ (SameInstance /\ timer'.remainingTime # timer.remainingTime) =>
           /\ timer'.remainingTime = timer.remainingTime - 50
           /\ timer.remainingTime > 0 ]_vars

\* the remaining time has reached 0 from 1000 and an interval is live
C27_Witness ==
  /\ timer.mounted
  /\ timer.duration = 1 /\ timer.remainingTime = 0
  /\ intervals.live # {}


====
